---- MODULE Spec2Model ----
(***************************************************************************)
(* The circular byte buffer of mm/circ_buf/circ_buf.c.                     *)
(*                                                                         *)
(* struct circ_buf_s is the variables base, size, head, tail, external;    *)
(* mem is the content of the storage base points at, live the blocks the   *)
(* allocator has handed out.  Every public function is one action (the     *)
(* whole call); the caller then takes the result (Return).  op records the *)
(* last call: its arguments, what it returned and the state it started in. *)
(***************************************************************************)
EXTENDS Integers, Sequences, FiniteSets, TLC

\* ------------------------------------------------------------------ bounds
\* width of size_t in bits: cursors and byte counts are taken modulo 2^CursorBits
CursorBits == 2
\* largest capacity a caller asks for
MaxSize == 2

SizeT == 2 ^ CursorBits
SIZE_MAX == SizeT - 1
\* longest source / largest byte count of one call: one more than any capacity
MaxBytes == MaxSize + 1
Byte == {0, 1}
\* blocks the allocator can hand out
Heap == {"h1", "h2"}

VARIABLES base, size, head, tail, external, mem, live, inited, pc, op, hist,
          wpc, wr, rpc, rd, excl, other, ref

circ == <<base, size, head, tail, external>>
\* the writer and the reader of the concurrent use: where each is in its call
\* (wpc, rpc) and its local variables (wr, rd); excl says whether the callers
\* give circ_buf_overwrite the exclusive access its note asks for; other is the
\* second writer and the second reader while they are not the ones running; ref
\* is the buffer the same calls give when the cursors are unbounded integers
procs == <<wpc, wr, rpc, rd, excl, other, ref>>
vars == <<base, size, head, tail, external, mem, live, inited, pc, op, hist, wpc, wr, rpc, rd,
          excl, other, ref>>

\* ------------------------------------------------------- size_t arithmetic
Add(a, b) == (a + b) % SizeT
Sub(a, b) == (a - b + SizeT) % SizeT
Min(a, b) == IF a < b THEN a ELSE b

Bytes(n) == [1..n -> Byte]
Srcs == UNION {Bytes(n) : n \in 0..MaxBytes}
\* what a block of n bytes may hold when nothing has been stored in it yet
Blocks(n) == [0..(n - 1) -> Byte]

\* ------------------------------------------------------------ pure queries
circ_buf_size(sz) == sz

circ_buf_used(h, t) == Sub(h, t)

circ_buf_space(sz, h, t) == Sub(circ_buf_size(sz), circ_buf_used(h, t))

circ_buf_is_empty(h, t) == circ_buf_used(h, t) = 0

circ_buf_is_full(sz, h, t) == circ_buf_space(sz, h, t) = 0

\* cursor % size: with size = 0 the division is undefined; a build that does
\* not raise a fault yields some value.
Offsets(cursor, sz) == IF sz = 0 THEN 0..SIZE_MAX ELSE {cursor % sz}

\* memcpy(dst, m + off, n): the n bytes of m from off
memcpy_from(m, off, n) == [i \in 1..n |-> m[off + i - 1]]

\* memcpy(m + off, data, Len(data))
memcpy_to(m, off, data) ==
  [i \in DOMAIN m |-> IF i >= off /\ i < off + Len(data) THEN data[i - off + 1] ELSE m[i]]

SubSeqFrom(s, k) == [i \in 1..(Len(s) - k) |-> s[k + i]]
Prefix(s, k) == [i \in 1..k |-> s[i]]

\* circ_buf_peek past its NULL check, given off = tail % size
peek(m, sz, h, t, off, n) ==
  LET bytes == Min(n, circ_buf_used(h, t))
      len   == Min(bytes, Sub(sz, off))
  IN  [ret |-> bytes,
       dst |-> memcpy_from(m, off, len) \o memcpy_from(m, 0, bytes - len)]

\* a skip that reports the count and leaves tail where it was
skip_keeps_tail(h, t, n) ==
  [ret |-> Min(n, circ_buf_used(h, t)), tail |-> t]

\* a skip that takes the whole request, resident or not
skip_unclamped(h, t, n) ==
  [ret |-> n, tail |-> Add(t, n)]

\* circ_buf_skip past its NULL check: the new tail and the count
skip(h, t, n) ==
  LET bytes == Min(n, circ_buf_used(h, t))
  IN  [ret |-> bytes, tail |-> Add(t, bytes)]

\* a copy that stops at the physical end of the storage
copy_in_one_segment(m, sz, off, src, bytes) ==
  memcpy_to(m, off, Prefix(src, Min(bytes, Sub(sz, off))))

\* the copy of circ_buf_write / circ_buf_overwrite: bytes of src to off, split
\* at the end of the storage
copy_in(m, sz, off, src, bytes) ==
  LET space == Min(bytes, Sub(sz, off))
  IN  memcpy_to(memcpy_to(m, off, Prefix(src, space)), 0,
                SubSeq(src, space + 1, bytes))

\* a write that stores head reduced modulo the capacity
write_head_modulo_size(m, sz, h, t, off, src) ==
  LET bytes == Min(Len(src), circ_buf_space(sz, h, t))
  IN  [ret |-> bytes, mem |-> copy_in(m, sz, off, src, bytes),
       head |-> IF sz > 0 THEN Add(h, bytes) % sz ELSE Add(h, bytes)]

\* circ_buf_write past its NULL checks, given off = head % size
write(m, sz, h, t, off, src) ==
  LET bytes == Min(Len(src), circ_buf_space(sz, h, t))
  IN  [ret |-> bytes, mem |-> copy_in(m, sz, off, src, bytes), head |-> Add(h, bytes)]

\* an overwrite that copies and advances head but never evicts
overwrite_no_evict(m, sz, h, t, off, src0) ==
  LET src   == IF Len(src0) > sz THEN SubSeqFrom(src0, Len(src0) - sz) ELSE src0
      bytes == Len(src)
      space == circ_buf_space(sz, h, t)
      over  == IF bytes > space THEN bytes - space ELSE 0
  IN  [ret |-> over, mem |-> copy_in(m, sz, off, src, bytes),
       head |-> Add(h, bytes), tail |-> t]

\* circ_buf_overwrite past its NULL checks, given off = head % size
overwrite(m, sz, h, t, off, src0) ==
  LET src   == IF Len(src0) > sz THEN SubSeqFrom(src0, Len(src0) - sz) ELSE src0
      bytes == Len(src)
      space == circ_buf_space(sz, h, t)
      over  == IF bytes > space THEN bytes - space ELSE 0
  IN  [ret |-> over, mem |-> copy_in(m, sz, off, src, bytes),
       head |-> Add(h, bytes), tail |-> Add(t, over)]

\* ------------------------------------------------------------------- state
NoSrc == <<>>
Snapshot == [base |-> base, size |-> size, head |-> head, tail |-> tail,
             external |-> external, mem |-> mem, live |-> live, inited |-> inited]
\* a call: handle is FALSE when circ is NULL, buf is FALSE when the src, dst or
\* base argument is NULL, freed is the pointers the call passed to kmm_free
NoOp == [name |-> "none", n |-> 0, src |-> NoSrc, buf |-> TRUE, err |-> "OK", ret |-> 0,
         dst |-> <<>>, pre |-> <<>>, handle |-> TRUE, freed |-> {}]
Call(name, n, src, buf) ==
  [name |-> name, n |-> n, src |-> src, buf |-> buf, err |-> "OK", ret |-> 0,
   dst |-> <<>>, pre |-> Snapshot, handle |-> TRUE, freed |-> {}]
\* the circ argument: the buffer, or NULL
Handles == {"circ", "null"}
\* a call whose circ is NULL returns err (or, for a void function, returns)
\* before it reads the buffer or any other argument
NullHandle(name, err) ==
  /\ pc' = "returned"
  /\ op' = [Call(name, 0, NoSrc, TRUE) EXCEPT !.handle = FALSE, !.err = err]
  /\ UNCHANGED <<circ, mem, live, inited, hist, procs>>

WIdle == [n |-> 0, src |-> <<>>, h |-> 0, t |-> 0, bytes |-> 0, off |-> 0, i |-> 0,
          over |-> 0]
RIdle == [kind |-> "none", n |-> 0, h |-> 0, t |-> 0, bytes |-> 0, off |-> 0, i |-> 0,
          dst |-> <<>>]

OIdle == [w |-> [pc |-> "idle", wr |-> WIdle], r |-> [pc |-> "idle", rd |-> RIdle]]

RefNone == [head |-> 0, tail |-> 0, mem |-> <<>>]

\* the buffer before circ_buf_init, and nobody in a call
InitBuffer ==
  /\ base = "null" /\ size = 0 /\ head = 0 /\ tail = 0 /\ external = FALSE
  /\ mem = <<>> /\ live = {} /\ inited = FALSE /\ pc = "idle" /\ op = NoOp
  /\ hist = NoOp
  /\ wpc = "idle" /\ wr = WIdle /\ rpc = "idle" /\ rd = RIdle
  /\ other = OIdle /\ ref = RefNone

Init == InitBuffer /\ excl = FALSE

Returned(o) == pc' = "returned" /\ op' = o /\ UNCHANGED <<hist, procs>>
\* the integer division by zero raised a fault: the call never returns
Trapped(o) == pc' = "trap" /\ op' = [o EXCEPT !.err = "TRAP"] /\ UNCHANGED <<hist, procs>>

\* ------------------------------------------------------------------ actions
\* an init that marks every buffer as owning its storage
tag_always_owned(b) == FALSE

\* circ->external = !!base
is_external(b) == b # "null"

\* circ_buf_init(circ, base, bytes): b is the caller's block ("ext") or NULL
circ_buf_init(c, b, bytes) ==
  \/ /\ c = "null" /\ pc = "idle"
     /\ NullHandle("init", "EINVAL")
  \/ /\ c # "null"
     /\ pc = "idle"
     /\ LET o == Call("init", bytes, NoSrc, b # "null") IN
        \/ /\ b # "null" /\ bytes = 0
           /\ Returned([o EXCEPT !.err = "EINVAL"])
           /\ UNCHANGED <<circ, mem, live, inited>>
        \/ /\ b = "null" /\ bytes # 0
           /\ external' = is_external(b)
           /\ inited' = FALSE
           /\ Returned([o EXCEPT !.err = "ENOMEM"])
           /\ UNCHANGED <<base, size, head, tail, mem, live>>
        \/ /\ b = "null" /\ bytes # 0
           /\ \E p \in Heap \ live : \E fill \in Blocks(bytes) :
                /\ base' = p /\ mem' = fill /\ live' = live \cup {p}
           /\ external' = is_external(b) /\ size' = bytes /\ head' = 0 /\ tail' = 0
           /\ inited' = TRUE
           /\ Returned(o)
        \/ /\ b # "null" /\ bytes # 0
           /\ \E fill \in Blocks(bytes) : mem' = fill
           /\ base' = b /\ external' = is_external(b) /\ size' = bytes /\ head' = 0 /\ tail' = 0
           /\ inited' = TRUE
           /\ Returned(o)
           /\ UNCHANGED live
        \/ /\ b = "null" /\ bytes = 0
           /\ base' = "null" /\ mem' = <<>> /\ external' = is_external(b)
           /\ size' = 0 /\ head' = 0 /\ tail' = 0
           /\ inited' = TRUE
           /\ Returned(o)
           /\ UNCHANGED live

\* kmm_free(p)
kmm_free(p, blocks) == blocks \ {p}

\* a resize that releases the old block before it knows it has a new one
resize_fail_frees(o, e) ==
  /\ Returned([o EXCEPT !.err = e])
  /\ live' = IF e = "ENOMEM" THEN live \ {base} ELSE live
  /\ UNCHANGED <<circ, mem, inited>>

\* the two early returns of circ_buf_resize: nothing has been touched yet
resize_fail(o, e) ==
  /\ Returned([o EXCEPT !.err = e])
  /\ UNCHANGED <<circ, mem, live, inited>>

\* circ_buf_resize(circ, bytes)
circ_buf_resize(c, bytes) ==
  \/ /\ c = "null" /\ pc = "idle"
     /\ NullHandle("resize", "EINVAL")
  \/ /\ c # "null"
     /\ pc = "idle" /\ inited
     /\ LET o == Call("resize", bytes, NoSrc, TRUE) IN
        \/ /\ external
           /\ resize_fail(o, "EINVAL")
        \/ /\ ~external
           /\ resize_fail(o, "ENOMEM")
        \/ /\ ~external
           /\ \E tmp \in Heap \ live : \E fill \in Blocks(bytes) :
                LET used == circ_buf_used(head, tail)
                    len  == Min(used, bytes)
                    t    == IF bytes < used THEN skip(head, tail, used - bytes).tail ELSE tail
                IN
                \/ /\ size = 0
                   /\ live' = live \cup {tmp}
                   /\ Trapped(o)
                   /\ UNCHANGED <<circ, mem, inited>>
                \/ \E off \in Offsets(t, size) :
                     LET r == peek(mem, size, head, t, off, len) IN
                     /\ mem' = memcpy_to(fill, 0, r.dst)
                     /\ live' = kmm_free(base, live \cup {tmp})
                     /\ base' = tmp /\ size' = bytes /\ head' = len /\ tail' = 0
                     /\ Returned([o EXCEPT !.freed = {base}])
                     /\ UNCHANGED <<external, inited>>

\* a reset that rewinds the write cursor and forgets the read cursor
reset_head_only(h, t) == [head |-> 0, tail |-> t]

\* circ->head = circ->tail = 0
reset(h, t) == [head |-> 0, tail |-> 0]

\* circ_buf_reset(circ)
circ_buf_reset(c) ==
  \/ /\ c = "null" /\ pc = "idle"
     /\ NullHandle("reset", "OK")
  \/ /\ c # "null"
     /\ pc = "idle" /\ inited
     /\ head' = reset(head, tail).head /\ tail' = reset(head, tail).tail
     /\ Returned(Call("reset", 0, NoSrc, TRUE))
     /\ UNCHANGED <<base, size, external, mem, live, inited>>

\* circ_buf_uninit past its NULL check
uninit ==
  /\ live' = IF ~external THEN kmm_free(base, live) ELSE live
  /\ inited' = FALSE
  /\ Returned([Call("uninit", 0, NoSrc, TRUE)
                 EXCEPT !.freed = IF ~external THEN {base} ELSE {}])
  /\ UNCHANGED <<circ, mem>>

\* circ_buf_uninit(circ)
circ_buf_uninit(c) ==
  \/ /\ c = "null" /\ pc = "idle"
     /\ NullHandle("uninit", "OK")
  \/ /\ c # "null"
     /\ pc = "idle" /\ inited
     /\ uninit

\* circ_buf_peek(circ, dst, bytes), dst a block of at least bytes bytes
circ_buf_peek(c, bytes) ==
  \/ /\ c = "null" /\ pc = "idle"
     /\ NullHandle("peek", "EINVAL")
  \/ /\ c # "null"
     /\ pc = "idle" /\ inited
     /\ LET o == Call("peek", bytes, NoSrc, TRUE) IN
        \/ /\ size = 0
           /\ Trapped(o)
        \/ \E off \in Offsets(tail, size) :
             LET r == peek(mem, size, head, tail, off, bytes) IN
             Returned([o EXCEPT !.ret = r.ret, !.dst = r.dst])
     /\ UNCHANGED <<circ, mem, live, inited>>

\* circ_buf_read(circ, dst, bytes); hasdst is FALSE for a NULL dst
circ_buf_read(c, bytes, hasdst) ==
  \/ /\ c = "null" /\ pc = "idle"
     /\ NullHandle("read", "EINVAL")
  \/ /\ c # "null"
     /\ pc = "idle" /\ inited
     /\ LET o == Call("read", bytes, NoSrc, hasdst) IN
        \/ /\ ~hasdst
           /\ Returned([o EXCEPT !.err = "EINVAL"])
           /\ UNCHANGED tail
        \/ /\ hasdst /\ size = 0
           /\ Trapped(o)
           /\ UNCHANGED tail
        \/ /\ hasdst
           /\ \E off \in Offsets(tail, size) :
                LET r == peek(mem, size, head, tail, off, bytes) IN
                /\ tail' = Add(tail, r.ret)
                /\ Returned([o EXCEPT !.ret = r.ret, !.dst = r.dst])
     /\ UNCHANGED <<base, size, head, external, mem, live, inited>>

\* circ_buf_skip(circ, bytes)
circ_buf_skip(c, bytes) ==
  \/ /\ c = "null" /\ pc = "idle"
     /\ NullHandle("skip", "EINVAL")
  \/ /\ c # "null"
     /\ pc = "idle" /\ inited
     /\ LET r == skip(head, tail, bytes) IN
        /\ tail' = r.tail
        /\ Returned([Call("skip", bytes, NoSrc, TRUE) EXCEPT !.ret = r.ret])
     /\ UNCHANGED <<base, size, head, external, mem, live, inited>>

\* circ_buf_write(circ, src, bytes); hassrc is FALSE for a NULL src
circ_buf_write(c, src, hassrc) ==
  \/ /\ c = "null" /\ pc = "idle"
     /\ NullHandle("write", "EINVAL")
  \/ /\ c # "null"
     /\ pc = "idle" /\ inited
     /\ LET o == Call("write", Len(src), src, hassrc) IN
        \/ /\ ~hassrc
           /\ Returned([o EXCEPT !.err = "EINVAL"])
           /\ UNCHANGED <<head, mem>>
        \/ /\ hassrc /\ size = 0
           /\ Trapped(o)
           /\ UNCHANGED <<head, mem>>
        \/ /\ hassrc
           /\ \E off \in Offsets(head, size) :
                LET r == write(mem, size, head, tail, off, src) IN
                /\ mem' = r.mem
                /\ head' = r.head
                /\ Returned([o EXCEPT !.ret = r.ret])
     /\ UNCHANGED <<base, size, tail, external, live, inited>>

\* circ_buf_overwrite(circ, src, bytes); hassrc is FALSE for a NULL src
circ_buf_overwrite(c, src, hassrc) ==
  \/ /\ c = "null" /\ pc = "idle"
     /\ NullHandle("overwrite", "EINVAL")
  \/ /\ c # "null"
     /\ pc = "idle" /\ inited
     /\ LET o == Call("overwrite", Len(src), src, hassrc) IN
        \/ /\ ~hassrc
           /\ Returned([o EXCEPT !.err = "EINVAL"])
           /\ UNCHANGED <<head, tail, mem>>
        \/ /\ hassrc /\ size = 0
           /\ Trapped(o)
           /\ UNCHANGED <<head, tail, mem>>
        \/ /\ hassrc
           /\ \E off \in Offsets(head, size) :
                LET r == overwrite(mem, size, head, tail, off, src) IN
                /\ mem' = r.mem
                /\ head' = r.head
                /\ tail' = r.tail
                /\ Returned([o EXCEPT !.ret = r.ret])
     /\ UNCHANGED <<base, size, external, live, inited>>

\* ------------------------------------------------- the queries, as called
\* a C bool as the caller sees it
Bool(b) == IF b THEN 1 ELSE 0

\* circ_buf_size(circ)
size_of(c) == IF c # "null" THEN circ_buf_size(size) ELSE 0

\* circ_buf_used(circ)
used_of(c) == IF c # "null" THEN circ_buf_used(head, tail) ELSE 0

\* circ_buf_space(circ)
space_of(c) == Sub(size_of(c), used_of(c))

\* an is_empty that forgets the negation
is_empty_not_negated(c) == Bool(used_of(c) # 0)

\* circ_buf_is_empty(circ)
is_empty_of(c) == Bool(used_of(c) = 0)

\* circ_buf_is_full(circ)
is_full_of(c) == Bool(space_of(c) = 0)

QueryNames == {"size", "used", "space", "is_empty", "is_full"}

\* one of the five queries is called and returns; none of them stores anything
circ_buf_query(c, fn) ==
  /\ pc = "idle"
  /\ c # "null" => inited
  /\ Returned([Call(fn, 0, NoSrc, TRUE) EXCEPT
                 !.handle = (c # "null"),
                 !.ret = CASE fn = "size"     -> size_of(c)
                           [] fn = "used"     -> used_of(c)
                           [] fn = "space"    -> space_of(c)
                           [] fn = "is_empty" -> is_empty_of(c)
                           [] fn = "is_full"  -> is_full_of(c)])
  /\ UNCHANGED <<circ, mem, live, inited>>

\* the caller takes the result of the call that returned
Return ==
  /\ pc = "returned"
  /\ pc' = "idle"
  /\ op' = NoOp
  /\ UNCHANGED <<circ, mem, live, inited, hist, procs>>

\* the cursors stay below 2^CursorBits: a call that would carry the write
\* cursor past SIZE_MAX is left out
NoCarry == head' >= head

\* the arguments to try with the handle c: a call with a NULL circ returns before
\* it looks at any other argument, so one value stands for all of them
ArgsFor(c, S) == IF c = "null" THEN {CHOOSE x \in S : TRUE} ELSE S

Next ==
  \/ \E c \in Handles : \E b \in ArgsFor(c, {"null", "ext"}) : \E bytes \in ArgsFor(c, 0..MaxSize) :
       circ_buf_init(c, b, bytes)
  \/ \E c \in Handles : \E bytes \in ArgsFor(c, 0..MaxSize) : circ_buf_resize(c, bytes)
  \/ \E c \in Handles : circ_buf_reset(c)
  \/ \E c \in Handles : circ_buf_uninit(c)
  \/ \E c \in Handles : \E bytes \in ArgsFor(c, 0..MaxBytes) : circ_buf_peek(c, bytes)
  \/ \E c \in Handles : \E bytes \in ArgsFor(c, 0..MaxBytes) : \E hasdst \in ArgsFor(c, BOOLEAN) :
       circ_buf_read(c, bytes, hasdst)
  \/ \E c \in Handles : \E bytes \in ArgsFor(c, 0..MaxBytes) : circ_buf_skip(c, bytes)
  \/ \E c \in Handles : \E src \in ArgsFor(c, Srcs) : \E hassrc \in ArgsFor(c, BOOLEAN) :
       circ_buf_write(c, src, hassrc) /\ NoCarry
  \/ \E c \in Handles : \E src \in ArgsFor(c, Srcs) : \E hassrc \in ArgsFor(c, BOOLEAN) :
       circ_buf_overwrite(c, src, hassrc) /\ NoCarry
  \/ \E c \in Handles : \E fn \in QueryNames : circ_buf_query(c, fn)
  \/ Return

Spec == Init /\ [][Next]_vars

\* circ_buf_uninit(circ) called when circ_buf_init has just returned -ENOMEM, on
\* a buffer whose base points at a block that exists (an earlier init stored it)
uninit_after_failed_init ==
  /\ pc = "returned" /\ op.name = "init" /\ op.handle /\ op.err = "ENOMEM"
  /\ base \in live \cup {"ext"}
  /\ uninit

\* the calls in any order, teardown after a failed initialization included
NextCleanup ==
  \/ Next
  \/ uninit_after_failed_init

SpecCleanup == Init /\ [][NextCleanup]_vars

\* what a caller keeps of a write it made to an empty buffer: the source, the
\* count returned and the capacity
Kept(o) ==
  IF o.name = "write" /\ o.handle /\ o.buf /\ o.pre.inited /\ o.pre.head = o.pre.tail
  THEN [NoOp EXCEPT !.name = "write", !.n = o.n, !.src = o.src, !.ret = o.ret,
                    !.pre = [size |-> o.pre.size]]
  ELSE NoOp

\* the caller takes the result and remembers the write it came from
ReturnKeep ==
  /\ pc = "returned"
  /\ pc' = "idle"
  /\ hist' = Kept(op)
  /\ op' = NoOp
  /\ UNCHANGED <<circ, mem, live, inited, procs>>

\* a caller that initializes, writes and reads, and remembers its last call
NextHist ==
  \/ \E c \in Handles : \E b \in ArgsFor(c, {"null", "ext"}) : \E bytes \in ArgsFor(c, 0..MaxSize) :
       circ_buf_init(c, b, bytes)
  \/ \E c \in Handles : \E src \in ArgsFor(c, Srcs) : \E hassrc \in ArgsFor(c, BOOLEAN) :
       circ_buf_write(c, src, hassrc) /\ NoCarry
  \/ \E c \in Handles : \E bytes \in ArgsFor(c, 0..MaxBytes) : \E hasdst \in ArgsFor(c, BOOLEAN) :
       circ_buf_read(c, bytes, hasdst)
  \/ ReturnKeep

SpecHist == Init /\ [][NextHist]_vars

\* ------------------------------------------- one writer and one reader, no lock
\* Each process runs its call one load, one byte copy or one store at a time.
\* The writer sends, for the logical position p of the stream, the byte Tag(p),
\* which no block holds before it is written.
Tag(p) == SizeT + p
Tags(p, n) == [i \in 1..n |-> Tag(Add(p, i - 1))]

seq == <<base, size, external, live, inited, op, hist, excl, other, ref>>

\* the order of the statements of circ_buf_write after the byte count is known:
\* the two memcpy, then head += bytes, then return
write_flow_publish_first(at) ==
  CASE at = "clamp" -> "store" [] at = "store" -> "copy" [] at = "copy" -> "idle"

write_flow(at) ==
  CASE at = "clamp" -> "copy" [] at = "copy" -> "store" [] at = "store" -> "idle"

\* a copy that runs on past the physical end of the storage
slot_no_wrap(sz, off, bytes, i) == off + i

\* the slot the i-th byte (from 0) of a two-segment copy of bytes bytes at off uses
slot(sz, off, bytes, i) ==
  LET len == Min(bytes, Sub(sz, off))
  IN  IF i < len THEN off + i ELSE i - len

\* circ_buf_write(circ, src, n) is called
w_call(n) ==
  /\ pc = "idle" /\ inited /\ wpc = "idle"
  /\ head + n <= SIZE_MAX
  /\ wr' = [WIdle EXCEPT !.n = n, !.src = Tags(head, n)]
  /\ wpc' = "load_head"
  /\ UNCHANGED <<seq, pc, mem, head, tail, rpc, rd>>

\* circ_buf_space: circ->head is loaded
w_load_head ==
  /\ pc = "idle" /\ wpc = "load_head"
  /\ wr' = [wr EXCEPT !.h = head]
  /\ wpc' = "load_tail"
  /\ UNCHANGED <<seq, pc, mem, head, tail, rpc, rd>>

\* circ_buf_space: circ->tail is loaded
w_load_tail ==
  /\ pc = "idle" /\ wpc = "load_tail"
  /\ wr' = [wr EXCEPT !.t = tail]
  /\ wpc' = "off"
  /\ UNCHANGED <<seq, pc, mem, head, tail, rpc, rd>>

\* off = circ->head % circ->size, and the byte count is cut to the space
w_off ==
  /\ pc = "idle" /\ wpc = "off"
  /\ \/ /\ size = 0
        /\ pc' = "trap"
        /\ UNCHANGED <<wr, wpc>>
     \/ /\ \E off \in Offsets(head, size) :
             wr' = [wr EXCEPT !.off = off,
                            !.bytes = Min(wr.n, circ_buf_space(size, wr.h, wr.t))]
        /\ wpc' = write_flow("clamp")
        /\ UNCHANGED pc
  /\ UNCHANGED <<seq, mem, head, tail, rpc, rd>>

\* memcpy stores one byte
w_copy_byte ==
  /\ pc = "idle" /\ wpc = "copy" /\ wr.i < wr.bytes
  /\ mem' = [mem EXCEPT ![slot(size, wr.off, wr.bytes, wr.i)] = wr.src[wr.i + 1]]
  /\ wr' = [wr EXCEPT !.i = wr.i + 1]
  /\ UNCHANGED <<seq, pc, head, tail, wpc, rpc, rd>>

\* the two memcpy are done
w_copy_done ==
  /\ pc = "idle" /\ wpc = "copy" /\ wr.i = wr.bytes
  /\ wpc' = write_flow("copy")
  /\ UNCHANGED <<seq, pc, mem, head, tail, wr, rpc, rd>>

\* circ->head += bytes
w_store_head ==
  /\ pc = "idle" /\ wpc = "store"
  /\ head' = Add(head, wr.bytes)
  /\ wpc' = write_flow("store")
  /\ UNCHANGED <<seq, pc, mem, tail, wr, rpc, rd>>

\* circ_buf_peek, circ_buf_read or circ_buf_skip is called with n bytes
r_call(kind, n) ==
  /\ pc = "idle" /\ inited /\ rpc = "idle"
  /\ rd' = [RIdle EXCEPT !.kind = kind, !.n = n]
  /\ rpc' = "load_head"
  /\ UNCHANGED <<seq, pc, mem, head, tail, wpc, wr>>

\* circ_buf_used: circ->head is loaded
r_load_head ==
  /\ pc = "idle" /\ rpc = "load_head"
  /\ rd' = [rd EXCEPT !.h = head]
  /\ rpc' = "load_tail"
  /\ UNCHANGED <<seq, pc, mem, head, tail, wpc, wr>>

\* circ_buf_used: circ->tail is loaded, and the byte count is cut to the length;
\* circ_buf_skip goes on to its store
r_load_tail ==
  /\ pc = "idle" /\ rpc = "load_tail"
  /\ rd' = [rd EXCEPT !.t = tail, !.bytes = Min(rd.n, circ_buf_used(rd.h, tail))]
  /\ rpc' = IF rd.kind = "skip" THEN "store" ELSE "off"
  /\ UNCHANGED <<seq, pc, mem, head, tail, wpc, wr>>

\* circ_buf_peek: off = circ->tail % circ->size
r_off ==
  /\ pc = "idle" /\ rpc = "off"
  /\ \/ /\ size = 0
        /\ pc' = "trap"
        /\ UNCHANGED <<rd, rpc>>
     \/ /\ \E off \in Offsets(tail, size) : rd' = [rd EXCEPT !.off = off]
        /\ rpc' = "copy"
        /\ UNCHANGED pc
  /\ UNCHANGED <<seq, mem, head, tail, wpc, wr>>

\* what a load from slot i of the storage gives: past the end of the block it
\* is a byte that is not of the buffer, or a fault
Junk == 0 - 1
Fault == 0 - 2
Loaded(m, i) == IF i \in DOMAIN m THEN {m[i]} ELSE {Junk, Fault}

\* memcpy loads one byte into dst
r_copy_byte ==
  /\ pc = "idle" /\ rpc = "copy" /\ rd.i < rd.bytes
  /\ \E v \in Loaded(mem, slot(size, rd.off, rd.bytes, rd.i)) :
       /\ pc' = IF v = Fault THEN "trap" ELSE pc
       /\ rd' = IF v = Fault THEN rd
                ELSE [rd EXCEPT !.dst = Append(rd.dst, v), !.i = rd.i + 1]
  /\ UNCHANGED <<seq, mem, head, tail, rpc, wpc, wr>>

\* the two memcpy are done: circ_buf_peek returns, circ_buf_read goes on
r_copy_done ==
  /\ pc = "idle" /\ rpc = "copy" /\ rd.i = rd.bytes
  /\ rpc' = IF rd.kind = "peek" THEN "idle" ELSE "store"
  /\ UNCHANGED <<seq, pc, mem, head, tail, rd, wpc, wr>>

\* circ->tail += bytes
r_store_tail ==
  /\ pc = "idle" /\ rpc = "store"
  /\ tail' = Add(tail, rd.bytes)
  /\ rpc' = "idle"
  /\ UNCHANGED <<seq, pc, mem, head, rd, wpc, wr>>

\* the buffer is initialized once, before the two processes start
InitOnce(b, bytes) ==
  /\ ~inited /\ wpc = "idle" /\ rpc = "idle" /\ rd.kind = "none"
  /\ circ_buf_init("circ", b, bytes)

NextSPSC ==
  \/ \E b \in {"null", "ext"} : \E bytes \in 0..MaxSize : InitOnce(b, bytes)
  \/ Return
  \/ \E n \in 0..MaxBytes : w_call(n)
  \/ w_load_head
  \/ w_load_tail
  \/ w_off
  \/ w_copy_byte
  \/ w_copy_done
  \/ w_store_head
  \/ \E kind \in {"peek", "read", "skip"} : \E n \in 0..MaxBytes : r_call(kind, n)
  \/ r_load_head
  \/ r_load_tail
  \/ r_off
  \/ r_copy_byte
  \/ r_copy_done
  \/ r_store_tail

SpecSPSC == Init /\ [][NextSPSC]_vars

\* ------------------------- circ_buf_overwrite next to a reader, step by step
\* The source of an overwrite of n bytes: the bytes that will be kept carry the
\* tags of the positions from head on, the leading excess is Junk.
OTags(h, n, sz) ==
  [i \in 1..n |-> IF i <= n - Min(n, sz) THEN Junk ELSE Tag(Add(h, i - 1 - (n - Min(n, sz))))]

\* an overwrite that evicts before it copies
overwrite_flow_evict_first(at) ==
  CASE at = "clamp" -> "o_load_tail2" [] at = "o_store_tail" -> "o_copy"
    [] at = "o_copy" -> "o_store_head" [] at = "o_store_head" -> "idle"

\* the order of the statements of circ_buf_overwrite once off is known: the two
\* memcpy, head += bytes, tail += overwrite, return
overwrite_flow(at) ==
  CASE at = "clamp" -> "o_copy" [] at = "o_copy" -> "o_store_head"
    [] at = "o_store_head" -> "o_load_tail2" [] at = "o_store_tail" -> "idle"

\* the reader is kept out while an overwrite that was given exclusive access runs
ReaderMayRun == ~excl \/ wpc = "idle"

\* circ_buf_overwrite(circ, src, n) is called (the stream stays below 2^CursorBits
\* and is at most one byte longer than the largest capacity)
o_call(n) ==
  /\ pc = "idle" /\ inited /\ wpc = "idle"
  /\ excl => rpc = "idle"
  /\ head + Min(n, size) <= Min(SIZE_MAX, MaxBytes)
  /\ wr' = [WIdle EXCEPT !.n = n, !.src = OTags(head, n, size)]
  /\ wpc' = "o_trunc"
  /\ UNCHANGED <<seq, pc, mem, head, tail, rpc, rd>>

\* a truncation that keeps the oldest bytes of the source
truncate_keeps_oldest(src, sz) ==
  IF Len(src) > sz THEN Prefix(src, sz) ELSE src

\* if (bytes > circ->size): src += bytes - circ->size; bytes = circ->size
truncate(src, sz) ==
  IF Len(src) > sz THEN SubSeqFrom(src, Len(src) - sz) ELSE src

\* the source is cut to its last circ->size bytes
o_trunc ==
  /\ pc = "idle" /\ wpc = "o_trunc"
  /\ wr' = [wr EXCEPT !.bytes = Len(truncate(wr.src, size)),
                    !.src = truncate(wr.src, size)]
  /\ wpc' = "o_load_head"
  /\ UNCHANGED <<seq, pc, mem, head, tail, rpc, rd>>

\* circ_buf_space: circ->head is loaded
o_load_head ==
  /\ pc = "idle" /\ wpc = "o_load_head"
  /\ wr' = [wr EXCEPT !.h = head]
  /\ wpc' = "o_load_tail"
  /\ UNCHANGED <<seq, pc, mem, head, tail, rpc, rd>>

\* circ_buf_space: circ->tail is loaded; overwrite = bytes - space if bytes > space
o_load_tail ==
  /\ pc = "idle" /\ wpc = "o_load_tail"
  /\ LET space == circ_buf_space(size, wr.h, tail)
     IN  wr' = [wr EXCEPT !.t = tail,
                          !.over = IF wr.bytes > space THEN Sub(wr.bytes, space) ELSE 0]
  /\ wpc' = "o_off"
  /\ UNCHANGED <<seq, pc, mem, head, tail, rpc, rd>>

\* off = circ->head % circ->size
o_off ==
  /\ pc = "idle" /\ wpc = "o_off"
  /\ \/ /\ size = 0
        /\ pc' = "trap"
        /\ UNCHANGED <<wr, wpc>>
     \/ /\ \E off \in Offsets(head, size) : wr' = [wr EXCEPT !.off = off]
        /\ wpc' = overwrite_flow("clamp")
        /\ UNCHANGED pc
  /\ UNCHANGED <<seq, mem, head, tail, rpc, rd>>

\* memcpy stores one byte
o_copy_byte ==
  /\ pc = "idle" /\ wpc = "o_copy" /\ wr.i < wr.bytes
  /\ mem' = [mem EXCEPT ![slot(size, wr.off, wr.bytes, wr.i)] = wr.src[wr.i + 1]]
  /\ wr' = [wr EXCEPT !.i = wr.i + 1]
  /\ UNCHANGED <<seq, pc, head, tail, wpc, rpc, rd>>

\* the two memcpy are done
o_copy_done ==
  /\ pc = "idle" /\ wpc = "o_copy" /\ wr.i = wr.bytes
  /\ wpc' = overwrite_flow("o_copy")
  /\ UNCHANGED <<seq, pc, mem, head, tail, wr, rpc, rd>>

\* circ->head += bytes
o_store_head ==
  /\ pc = "idle" /\ wpc = "o_store_head"
  /\ head' = Add(head, wr.bytes)
  /\ wpc' = overwrite_flow("o_store_head")
  /\ UNCHANGED <<seq, pc, mem, tail, wr, rpc, rd>>

\* circ->tail += overwrite: circ->tail is loaded
o_load_tail2 ==
  /\ pc = "idle" /\ wpc = "o_load_tail2"
  /\ wr' = [wr EXCEPT !.t = tail]
  /\ wpc' = "o_store_tail"
  /\ UNCHANGED <<seq, pc, mem, head, tail, rpc, rd>>

\* circ->tail += overwrite: the sum is stored; the call returns overwrite and
\* its other locals are gone
o_store_tail ==
  /\ pc = "idle" /\ wpc = "o_store_tail"
  /\ tail' = Add(wr.t, wr.over)
  /\ wpc' = overwrite_flow("o_store_tail")
  /\ wr' = IF wpc' = "idle" THEN [WIdle EXCEPT !.over = wr.over] ELSE wr
  /\ UNCHANGED <<seq, pc, mem, head, rpc, rd>>

\* the reader computed an occupancy above the capacity
ReaderSawOverfull ==
  /\ rd.kind # "none" /\ rpc \notin {"load_head", "load_tail"}
  /\ circ_buf_used(rd.h, rd.t) > size
\* the reader got bytes that are not the oldest resident bytes in write order
ReaderGotWrongBytes == rd.dst # Tags(rd.t, Len(rd.dst))
\* with nobody in a call, the cursors are not an occupancy within the capacity
CursorsBroken ==
  /\ wpc = "idle" /\ rpc = "idle"
  /\ ~(head >= tail /\ head - tail <= size)
Broken == ReaderSawOverfull \/ ReaderGotWrongBytes \/ CursorsBroken

\* callers that either always or never give overwrite exclusive access; they
\* make no further call once the reader has got wrong bytes or a wrong count
InitOverwrite == InitBuffer /\ excl \in BOOLEAN

\* (the buffer is on a block of the caller, or has no storage: the data
\* movement calls never look at who owns the storage)
NextOverwrite ==
  \/ \E bytes \in 0..MaxSize : InitOnce(IF bytes = 0 THEN "null" ELSE "ext", bytes)
  \/ Return
  \/ ~Broken /\ \E n \in 0..MaxBytes : o_call(n)
  \/ o_trunc
  \/ o_load_head
  \/ o_load_tail
  \/ o_off
  \/ o_copy_byte
  \/ o_copy_done
  \/ o_store_head
  \/ o_load_tail2
  \/ o_store_tail
  \/ ~Broken /\ ReaderMayRun /\
       \E kind \in {"peek", "read", "skip"} : \E n \in 0..MaxBytes : r_call(kind, n)
  \/ ReaderMayRun /\ r_load_head
  \/ ReaderMayRun /\ r_load_tail
  \/ ReaderMayRun /\ r_off
  \/ ReaderMayRun /\ r_copy_byte
  \/ ReaderMayRun /\ r_copy_done
  \/ ReaderMayRun /\ r_store_tail

SpecOverwrite == InitOverwrite /\ [][NextOverwrite]_vars

\* --------------- two writers and two readers, a lock on each side (lines 21-26)
\* One writer and one reader are running (wpc, wr, rpc, rd); the other writer
\* and the other reader are held in other, each with its position and locals.
\* A lock is held from the call to its return.
\* the lock of a side is free when the other process of that side is in no call
lock_free(holder) == holder = "idle"

\* a writer takes the writer-side lock and calls circ_buf_write(circ, src, n)
lw_call(n) ==
  /\ lock_free(other.w.pc)
  /\ head + n <= MaxBytes
  /\ w_call(n)

\* a reader takes the reader-side lock and calls peek, read or skip
lr_call(kind, n) ==
  /\ lock_free(other.r.pc)
  /\ r_call(kind, n)

\* the other writer runs from here on; the locals of a call that returned are gone
w_switch ==
  /\ pc = "idle" /\ inited
  /\ wpc # "idle" \/ other.w.pc # "idle"
  /\ wpc' = other.w.pc /\ wr' = other.w.wr
  /\ other' = [other EXCEPT !.w = [pc |-> wpc, wr |-> IF wpc = "idle" THEN WIdle ELSE wr]]
  /\ UNCHANGED <<circ, mem, live, inited, pc, op, hist, rpc, rd, excl, ref>>

\* the other reader runs from here on
r_switch ==
  /\ pc = "idle" /\ inited
  /\ rpc # "idle" \/ other.r.pc # "idle"
  /\ rpc' = other.r.pc /\ rd' = other.r.rd
  /\ other' = [other EXCEPT !.r = [pc |-> rpc, rd |-> IF rpc = "idle" THEN RIdle ELSE rd]]
  /\ UNCHANGED <<circ, mem, live, inited, pc, op, hist, wpc, wr, excl, ref>>

NextLocked ==
  \/ \E bytes \in 0..MaxSize : InitOnce(IF bytes = 0 THEN "null" ELSE "ext", bytes)
  \/ Return
  \/ \E n \in 0..MaxBytes : lw_call(n)
  \/ w_load_head
  \/ w_load_tail
  \/ w_off
  \/ w_copy_byte
  \/ w_copy_done
  \/ w_store_head
  \/ w_switch
  \/ \E kind \in {"peek", "read", "skip"} : \E n \in 0..MaxBytes : lr_call(kind, n)
  \/ r_load_head
  \/ r_load_tail
  \/ r_off
  \/ r_copy_byte
  \/ r_copy_done
  \/ r_store_tail
  \/ r_switch

SpecLocked == Init /\ [][NextLocked]_vars

\* ------------------------- the counters overflow: the calls next to a reference
\* The same calls are made on ref, a buffer on the same block whose cursors are
\* unbounded integers. The p-th byte of the stream is Tag(p), the leading bytes
\* of a source that an overwrite cuts off are Junk.
MaxStream == SizeT + MaxBytes
Stream(p, n) == [i \in 1..n |-> Tag(p + i - 1)]
OStream(p, n, sz) ==
  [i \in 1..n |-> IF i <= n - Min(n, sz) THEN Junk ELSE Tag(p + i - 1 - (n - Min(n, sz)))]
\* the caller's block, zero-filled
Zeroed(n) == [i \in 0..(n - 1) |-> 0]

\* circ_buf_write with cursors that are unbounded integers
RefWrite(r, sz, src) ==
  LET bytes == Min(Len(src), sz - (r.head - r.tail))
  IN  [ret |-> bytes, dst |-> <<>>, head |-> r.head + bytes, tail |-> r.tail,
       mem |-> copy_in(r.mem, sz, r.head % sz, src, bytes)]

\* circ_buf_overwrite with cursors that are unbounded integers
RefOverwrite(r, sz, src0) ==
  LET src   == truncate(src0, sz)
      bytes == Len(src)
      space == sz - (r.head - r.tail)
      over  == IF bytes > space THEN bytes - space ELSE 0
  IN  [ret |-> over, dst |-> <<>>, head |-> r.head + bytes, tail |-> r.tail + over,
       mem |-> copy_in(r.mem, sz, r.head % sz, src, bytes)]

\* circ_buf_peek (move = 0), circ_buf_read (move = 1) and circ_buf_skip with
\* cursors that are unbounded integers
RefPeek(r, sz, n, move) ==
  LET bytes == Min(n, r.head - r.tail)
      off   == r.tail % sz
      len   == Min(bytes, sz - off)
  IN  [ret |-> bytes, dst |-> memcpy_from(r.mem, off, len) \o memcpy_from(r.mem, 0, bytes - len),
       head |-> r.head, tail |-> r.tail + move * bytes, mem |-> r.mem]
RefSkip(r, n) ==
  LET bytes == Min(n, r.head - r.tail)
  IN  [ret |-> bytes, dst |-> <<>>, head |-> r.head, tail |-> r.tail + bytes, mem |-> r.mem]

\* what the call o gives on the reference r
RefStep(r, o) ==
  CASE o.name = "write"     -> RefWrite(r, size, o.src)
    [] o.name = "overwrite" -> RefOverwrite(r, size, o.src)
    [] o.name = "peek"      -> RefPeek(r, size, o.n, 0)
    [] o.name = "read"      -> RefPeek(r, size, o.n, 1)
    [] o.name = "skip"      -> RefSkip(r, o.n)
    [] OTHER -> [ret |-> 0, dst |-> <<>>, head |-> 0, tail |-> 0, mem |-> mem]

\* the caller takes the result, and the reference makes the same call
ReturnRef ==
  /\ pc = "returned"
  /\ pc' = "idle"
  /\ LET r == RefStep(ref, op) IN ref' = [head |-> r.head, tail |-> r.tail, mem |-> r.mem]
  /\ op' = NoOp
  /\ UNCHANGED <<circ, mem, live, inited, hist, wpc, wr, rpc, rd, excl, other>>

\* a buffer of any capacity from 1 to SIZE_MAX on a zero-filled block of the
\* caller, and calls until MaxStream bytes went in: head passes 2^CursorBits
NextCarry ==
  \/ \E bytes \in 1..SIZE_MAX : InitOnce("ext", bytes) /\ mem' = Zeroed(bytes)
  \/ ReturnRef
  \/ \E n \in 0..MaxBytes :
       /\ ref.head + n <= MaxStream
       /\ circ_buf_write("circ", Stream(ref.head, n), TRUE)
  \/ \E n \in 0..MaxBytes :
       /\ ref.head + Min(n, size) <= MaxStream
       /\ circ_buf_overwrite("circ", OStream(ref.head, n, size), TRUE)
  \/ \E n \in 0..MaxBytes : inited /\ circ_buf_peek("circ", n)
  \/ \E n \in 0..MaxBytes : inited /\ circ_buf_read("circ", n, TRUE)
  \/ \E n \in 0..MaxBytes : inited /\ circ_buf_skip("circ", n)

SpecCarry == Init /\ [][NextCarry]_vars

\* ------------------------------------------------------- reading the state
\* the bytes held, oldest first: logical position tail + i lives in slot
\* (tail + i) % size
Resident(m, sz, h, t) ==
  [i \in 1..circ_buf_used(h, t) |-> m[Add(t, i - 1) % sz]]
NowResident == Resident(mem, size, head, tail)
PreResident == Resident(op.pre.mem, op.pre.size, op.pre.head, op.pre.tail)
PreUsed == circ_buf_used(op.pre.head, op.pre.tail)
PreSpace == circ_buf_space(op.pre.size, op.pre.head, op.pre.tail)
Last(s, k) == SubSeqFrom(s, Len(s) - k)
\* the call name was made, and returned or faulted
Called(name) == pc \in {"returned", "trap"} /\ op.name = name /\ op.handle
\* the call name returned a count
Done(name) == pc = "returned" /\ op.name = name /\ op.handle /\ op.err = "OK"
\* the copy of the call went over the physical end of the storage
Straddles(cursor, k) == op.pre.size > 0 /\ (cursor % op.pre.size) + k > op.pre.size
SameBuffer ==
  /\ base = op.pre.base /\ size = op.pre.size /\ head = op.pre.head
  /\ tail = op.pre.tail /\ external = op.pre.external /\ mem = op.pre.mem

\* ------------------------------------------------------------------ claims
\* C1: on an initialized buffer, after every call, head >= tail, the occupancy
\* head - tail is at most size, and used + space = size.
C1_CursorInvariant ==
  inited =>
    /\ head >= tail
    /\ circ_buf_used(head, tail) = head - tail
    /\ head - tail <= size
    /\ circ_buf_used(head, tail) + circ_buf_space(size, head, tail) = circ_buf_size(size)

\* an overwrite evicted bytes and left the buffer full
C1_Witness ==
  /\ inited /\ Done("overwrite") /\ op.ret > 0 /\ size > 0
  /\ circ_buf_used(head, tail) = size

\* the slots that hold bytes the reader has not consumed yet
UnconsumedSlots ==
  {Add(tail, j) % size : j \in 0..(circ_buf_used(head, tail) - 1)}

\* C3: one writer (write) and one reader (peek, read, skip) interleaved load by
\* load, byte by byte and store by store, with no lock: the writer stores into
\* no slot that holds an unconsumed byte, the reader copies only bytes that were
\* completely written, occupancy stays within capacity, what the reader gets is
\* the accepted stream in order, and a stale cursor only under-reports.
C3_SingleWriterSingleReader ==
  inited =>
    /\ head >= tail /\ head - tail <= size
    /\ (wpc = "copy" /\ wr.i < wr.bytes) =>
         slot(size, wr.off, wr.bytes, wr.i) \notin UnconsumedSlots
    /\ (wpc \in {"copy", "store"}) => wr.bytes <= circ_buf_space(size, head, tail)
    /\ (rpc \in {"off", "copy", "store"}) =>
         /\ rd.t = tail
         /\ rd.bytes <= circ_buf_used(head, tail)
    /\ rd.dst = Tags(rd.t, Len(rd.dst))
    /\ (rpc = "idle" /\ rd.kind \in {"read", "peek"}) => Len(rd.dst) = rd.bytes
    /\ (rpc = "idle" /\ rd.kind \in {"read", "skip"}) => tail = rd.t + rd.bytes
    /\ (rpc = "idle" /\ rd.kind = "peek") => tail = rd.t
    /\ wpc = "idle" => NowResident = Tags(tail, circ_buf_used(head, tail))

\* the writer is about to publish bytes it fitted into a space computed from a
\* tail the reader has moved since
C3_Witness ==
  /\ inited /\ wpc = "store" /\ wr.bytes > 0 /\ wr.t # tail
  /\ circ_buf_space(size, wr.h, wr.t) < circ_buf_space(size, head, tail)

\* both processes are in the middle of their copies
C3_BothCopying ==
  /\ wpc = "copy" /\ wr.i < wr.bytes /\ rpc = "copy" /\ rd.i < rd.bytes

\* the reader got bytes while the head it loaded was already stale
C3_StaleHeadReached ==
  /\ rpc = "copy" /\ rd.i = rd.bytes /\ rd.bytes > 0 /\ rd.h # head

\* what the bounded FIFO without wraparound returns and becomes
RefAgrees ==
  LET q == PreResident
      N == op.pre.size
      kin  == Min(op.n, N - Len(q))
      kout == Min(op.n, Len(q))
  IN  /\ op.err = "OK"
      /\ size = N
      /\ CASE op.name = "write" -> op.ret = kin /\ NowResident = q \o Prefix(op.src, kin)
           [] op.name = "peek"  -> op.ret = kout /\ op.dst = Prefix(q, kout) /\ NowResident = q
           [] op.name = "read"  ->
                op.ret = kout /\ op.dst = Prefix(q, kout) /\ NowResident = SubSeqFrom(q, kout)
           [] op.name = "skip"  -> op.ret = kout /\ NowResident = SubSeqFrom(q, kout)

FifoCall == op.name \in {"write", "peek", "read", "skip"} /\ op.handle /\ op.buf

\* C2: for every capacity, every write, peek, read and skip returns the count
\* and bytes of the bounded FIFO and leaves the content of that FIFO.
C2_WraparoundEquivalence ==
  (pc \in {"returned", "trap"} /\ FifoCall) => (pc = "returned" /\ RefAgrees)

\* C2 for capacities of at least one byte
C2_PositiveCapacity ==
  (pc \in {"returned", "trap"} /\ FifoCall /\ op.pre.size > 0) =>
    (pc = "returned" /\ RefAgrees)

\* a read whose copy was done as two segments
C2_StraddleReached == Done("read") /\ Straddles(op.pre.tail, op.ret)

WriteEffect ==
  /\ pc = "returned" /\ op.err = "OK"
  /\ op.ret = Min(op.n, PreSpace)
  /\ NowResident = PreResident \o Prefix(op.src, op.ret)
  /\ head = op.pre.head + op.ret
  /\ tail = op.pre.tail
  /\ size = op.pre.size /\ base = op.pre.base /\ external = op.pre.external
  /\ \A i \in 1..PreUsed :
       mem[Add(op.pre.tail, i - 1) % size] = op.pre.mem[Add(op.pre.tail, i - 1) % size]
  /\ (PreSpace = 0 => (op.ret = 0 /\ SameBuffer))

\* C4: a write with buffer and source returns min(n, space), appends that many
\* leading bytes, advances head by it and leaves tail and the resident bytes;
\* into a full buffer it returns 0 and changes nothing.
C4_Backpressure == (Called("write") /\ op.buf) => WriteEffect

\* C4 for capacities of at least one byte
C4_PositiveCapacity == (Called("write") /\ op.buf /\ op.pre.size > 0) => WriteEffect

\* a write was cut short by the free space
C4_ShortWriteReached == Done("write") /\ op.ret < op.n /\ op.ret > 0

OverwriteEffect ==
  LET R == PreResident
      N == op.pre.size
      all == R \o op.src
      evicted == Len(R) + Min(op.n, N) - N
  IN  /\ pc = "returned" /\ op.err = "OK"
      /\ size = N
      /\ NowResident = Last(all, Min(N, Len(all)))
      /\ op.ret = (IF evicted > 0 THEN evicted ELSE 0)
      /\ (op.n > N => NowResident = Last(op.src, N))
      /\ ((Len(R) = N /\ op.n = N) => (NowResident = op.src /\ op.ret = N))

\* C5: overwrite leaves the last min(N, |R| + n) bytes of R ++ source and
\* returns the number of bytes of R evicted.
C5_OverwriteKeepsNewest == (Called("overwrite") /\ op.buf) => OverwriteEffect

\* C5 for capacities of at least one byte
C5_PositiveCapacity ==
  (Called("overwrite") /\ op.buf /\ op.pre.size > 0) => OverwriteEffect

\* an overwrite longer than the capacity evicted resident bytes
C5_TruncationReached == Done("overwrite") /\ op.n > size /\ op.ret > 0 /\ size > 0

\* C6: a successful resize leaves size = new capacity, tail = 0,
\* head = min(|R|, new capacity) and the last min(|R|, new capacity) bytes of R.
C6_ResizeKeepsNewest ==
  Done("resize") =>
    /\ size = op.n
    /\ tail = 0
    /\ head = Min(PreUsed, op.n)
    /\ NowResident = Last(PreResident, Min(PreUsed, op.n))
    /\ ~external

\* a shrinking resize of content that lay across the physical end of storage
C6_Witness ==
  /\ Done("resize") /\ size > 0 /\ PreUsed > size
  /\ Straddles(op.pre.tail, PreUsed)

\* C7: a resize that fails changes nothing and releases nothing: it returns
\* EINVAL exactly on a buffer marked external, else ENOMEM.
C7_ResizeFailureIsClean ==
  (pc = "returned" /\ op.name = "resize" /\ op.handle) =>
    /\ (op.pre.external <=> op.err = "EINVAL")
    /\ (op.err # "OK" =>
          /\ op.err \in {"EINVAL", "ENOMEM"}
          /\ SameBuffer
          /\ live = op.pre.live
          /\ inited = op.pre.inited
          /\ NowResident = PreResident)

\* the allocation of a resize failed on a buffer that holds bytes
C7_Witness ==
  /\ pc = "returned" /\ op.name = "resize" /\ op.handle /\ op.err = "ENOMEM"
  /\ PreUsed > 0 /\ op.pre.base \in op.pre.live

\* the external buffer refused a resize while holding bytes
C7_ExternalReached ==
  pc = "returned" /\ op.name = "resize" /\ op.handle /\ op.err = "EINVAL" /\ PreUsed > 0

PeekEffect ==
  /\ pc = "returned" /\ op.err = "OK"
  /\ op.ret = Min(op.n, PreUsed)
  /\ op.dst = Prefix(PreResident, op.ret)
  /\ SameBuffer
  /\ circ_buf_used(head, tail) = PreUsed
  /\ circ_buf_space(size, head, tail) = PreSpace

\* C9: peek returns min(n, occupancy) and the oldest bytes, and changes no
\* cursor, no capacity and no byte of storage.
C9_PeekNonDestructive == Called("peek") => PeekEffect

\* C9 for capacities of at least one byte
C9_PositiveCapacity == (Called("peek") /\ op.pre.size > 0) => PeekEffect

\* a peek returned fewer bytes than asked
C9_ShortPeekReached == Done("peek") /\ op.ret < op.n /\ op.ret > 0

ReadEffect ==
  LET k == Min(op.n, PreUsed)
  IN  /\ pc = "returned" /\ op.err = "OK"
      /\ op.ret = k
      /\ op.dst = Prefix(PreResident, k)
      /\ tail = op.pre.tail + k
      /\ head = op.pre.head /\ size = op.pre.size /\ mem = op.pre.mem

ReadRefused == pc = "returned" /\ op.err = "EINVAL" /\ SameBuffer

\* C10: read delivers what peek delivers, k = min(n, occupancy) bytes, then
\* advances tail by k and leaves head, size and storage; with no destination it
\* returns EINVAL and moves no cursor.
C10_ReadIsPeekThenAdvance ==
  Called("read") => (IF op.buf THEN ReadEffect ELSE ReadRefused)

\* C10 for capacities of at least one byte
C10_PositiveCapacity ==
  (Called("read") /\ op.pre.size > 0) => (IF op.buf THEN ReadEffect ELSE ReadRefused)

\* a read that consumed bytes lying across the physical end of storage
C10_StraddleReached == Done("read") /\ op.ret > 1 /\ Straddles(op.pre.tail, op.ret)

\* the last call was write(x) with a source on an empty initialized buffer
WroteOnEmpty == hist.name = "write"
\* ... and this call is read(y) with a destination at least as long as x
ReadBack == op.name = "read" /\ op.handle /\ op.buf /\ op.n >= hist.n /\ WroteOnEmpty

SkipEffect ==
  LET k == Min(op.n, PreUsed)
  IN  /\ pc = "returned" /\ op.err = "OK"
      /\ op.ret = k
      /\ tail = op.pre.tail + k
      /\ head = op.pre.head
      /\ mem = op.pre.mem
      /\ size = op.pre.size /\ base = op.pre.base /\ external = op.pre.external
      /\ NowResident = SubSeqFrom(PreResident, k)

\* C11: skip(n) advances tail by min(n, occupancy) and returns that number; it
\* changes neither head nor any byte of storage, and what stays readable is the
\* former resident bytes without the oldest min(n, occupancy).
C11_SkipDiscardsOldest == Called("skip") => SkipEffect

\* a skip took some, not all, of resident bytes that lie across the physical end
\* of the storage
C11_Witness ==
  /\ Done("skip") /\ op.ret > 0 /\ op.ret < PreUsed
  /\ Straddles(op.pre.tail, PreUsed)

\* a skip asked for more than is resident
C11_ClampReached == Done("skip") /\ op.ret < op.n /\ op.ret > 0

\* C12: circ_buf_init with a block and zero capacity returns EINVAL; with no
\* block and a nonzero capacity it allocates a block of that capacity and marks
\* it owned, or returns ENOMEM; with a block and a nonzero capacity it uses the
\* block, marks it external and allocates nothing; every init that returns 0
\* leaves head = tail = 0, occupancy 0 and size equal to the argument.
C12_InitContract ==
  (pc = "returned" /\ op.name = "init" /\ op.handle) =>
    /\ (op.buf /\ op.n = 0) =>
         (op.err = "EINVAL" /\ SameBuffer /\ live = op.pre.live)
    /\ (~op.buf /\ op.n # 0) =>
         \/ /\ op.err = "OK"
            /\ base \in Heap \ op.pre.live
            /\ live = op.pre.live \cup {base}
            /\ DOMAIN mem = 0..(op.n - 1)
            /\ ~external
         \/ /\ op.err = "ENOMEM"
            /\ live = op.pre.live
    /\ (op.buf /\ op.n # 0) =>
         /\ op.err = "OK"
         /\ base = "ext" /\ external
         /\ live = op.pre.live
    /\ op.err = "OK" =>
         /\ inited
         /\ head = 0 /\ tail = 0
         /\ circ_buf_used(head, tail) = 0
         /\ circ_buf_size(size) = op.n
    /\ op.freed = {}

\* a buffer that held bytes was initialized again with storage of its own
C12_Witness ==
  /\ Done("init") /\ ~op.buf /\ op.n > 0
  /\ op.pre.inited /\ PreUsed > 0

\* the allocator failed
C12_OutOfMemoryReached ==
  pc = "returned" /\ op.name = "init" /\ op.handle /\ op.err = "ENOMEM"

\* a block came with zero capacity
C12_InvalidReached ==
  pc = "returned" /\ op.name = "init" /\ op.handle /\ op.err = "EINVAL"

\* C13: in any sequence of calls, kmm_free is never passed the caller's block;
\* a block of the allocator is released only by circ_buf_uninit and by a
\* circ_buf_resize that returns 0; circ_buf_uninit(NULL) does nothing.
C13_NeverFreesBorrowed ==
  pc \in {"returned", "trap"} =>
    /\ "ext" \notin op.freed
    /\ (op.pre.live \ live) \subseteq op.freed
    /\ op.freed # {} =>
         (op.handle /\ (op.name = "uninit" \/ (op.name = "resize" /\ op.err = "OK")))
    /\ (op.name = "uninit" /\ ~op.handle) =>
         (SameBuffer /\ live = op.pre.live /\ inited = op.pre.inited)

\* a buffer on the caller's block was torn down and nothing was freed
C13_BorrowedTornDown ==
  Done("uninit") /\ op.pre.external /\ op.pre.base = "ext" /\ op.freed = {}

\* a resize released the old block of a buffer that owns its storage
C13_ResizeReleased ==
  Done("resize") /\ op.pre.base \in op.pre.live /\ op.pre.base \notin live

QueryReturned == pc = "returned" /\ op.name \in QueryNames
QueryChangedNothing ==
  SameBuffer /\ live = op.pre.live /\ inited = op.pre.inited /\ op.freed = {}

\* C14 as claimed: each of size, used, space, is_empty and is_full called with
\* a NULL buffer returns 0 / false, and no query changes anything.
C14_AbsentGivesZeroFalse ==
  QueryReturned =>
    /\ op.err = "OK"
    /\ QueryChangedNothing
    /\ ~op.handle => op.ret = 0

\* C14 amended: with a NULL buffer size, used and space return 0 and is_empty
\* and is_full return true; no query changes anything.
C14_AbsentGivesZeroTrue ==
  QueryReturned =>
    /\ op.err = "OK"
    /\ QueryChangedNothing
    /\ ~op.handle =>
         op.ret = (IF op.name \in {"is_empty", "is_full"} THEN Bool(TRUE) ELSE 0)

\* is_full was asked of no buffer while the buffer at hand has room and bytes
C14_Witness ==
  /\ QueryReturned /\ op.name = "is_full" /\ ~op.handle
  /\ inited /\ circ_buf_space(size, head, tail) > 0 /\ circ_buf_used(head, tail) > 0

\* a query of a buffer that holds bytes returned
C14_PresentReached ==
  QueryReturned /\ op.handle /\ op.name = "used" /\ op.ret > 0

\* C15: reset leaves both cursors equal, so that used = 0 and space = size, and
\* leaves every byte of storage, size, base and the external tag unchanged;
\* reset(NULL) changes nothing.
C15_ResetKeepsStorage ==
  (pc = "returned" /\ op.name = "reset") =>
    /\ op.err = "OK"
    /\ mem = op.pre.mem /\ size = op.pre.size /\ base = op.pre.base
    /\ external = op.pre.external
    /\ live = op.pre.live /\ inited = op.pre.inited /\ op.freed = {}
    /\ IF op.handle
       THEN /\ head = tail
            /\ circ_buf_used(head, tail) = 0
            /\ circ_buf_space(size, head, tail) = circ_buf_size(size)
            /\ circ_buf_is_empty(head, tail)
       ELSE head = op.pre.head /\ tail = op.pre.tail

\* a buffer that held bytes past consumed ones was reset
C15_Witness ==
  /\ Done("reset") /\ PreUsed > 0 /\ op.pre.tail > 0 /\ size > 0

\* reset was called with no buffer while the buffer at hand holds bytes
C15_AbsentReached ==
  /\ pc = "returned" /\ op.name = "reset" /\ ~op.handle
  /\ inited /\ circ_buf_used(head, tail) > 0

\* C16: circ_buf_overwrite next to a reader (peek, read, skip) that takes no
\* lock: when the callers give overwrite exclusive access, the reader never
\* computes an occupancy above the capacity and never gets bytes other than the
\* oldest resident ones in write order, and between calls the buffer holds the
\* newest bytes of the stream; without exclusive access such a state is reached
\* (C16_Witness).
C16_OverwriteNeedsExclusiveAccess ==
  (excl /\ inited) =>
    /\ ~Broken
    /\ (wpc = "idle" /\ size > 0) => NowResident = Tags(tail, circ_buf_used(head, tail))

\* without exclusive access, a read returned bytes that are not the oldest
\* resident bytes
C16_Witness ==
  /\ ~excl /\ inited /\ rpc = "idle" /\ rd.kind = "read" /\ rd.bytes > 0
  /\ ReaderGotWrongBytes

\* without exclusive access, the reader computed an occupancy above the capacity
C16_OverfullReached == ~excl /\ inited /\ size > 0 /\ ReaderSawOverfull

\* with exclusive access, a read after an overwrite that evicted bytes
C16_ExclusiveReached ==
  /\ excl /\ inited /\ rpc = "idle" /\ rd.kind = "read" /\ rd.bytes > 0 /\ rd.t > 0
  /\ wpc = "idle" /\ wr.over > 0

\* what a writer in a call may rely on: the slot it stores into holds no
\* unconsumed byte, and the bytes it will publish fit into the free space
WriterSafe(p, w) ==
  /\ (p = "copy" /\ w.i < w.bytes) => slot(size, w.off, w.bytes, w.i) \notin UnconsumedSlots
  /\ (p \in {"copy", "store"}) => w.bytes <= circ_buf_space(size, head, tail)

\* what a reader in a call may rely on: nobody moved the tail it loaded, the
\* bytes it counted are there, and what it copied so far is the stream from there
ReaderSafe(p, r) ==
  /\ (p \in {"off", "copy", "store"}) => r.t = tail /\ r.bytes <= circ_buf_used(head, tail)
  /\ r.dst = Tags(r.t, Len(r.dst))
  /\ (p = "idle" /\ r.kind \in {"read", "peek"}) => Len(r.dst) = r.bytes
  /\ (p = "idle" /\ r.kind \in {"read", "skip"}) => tail = r.t + r.bytes
  /\ (p = "idle" /\ r.kind = "peek") => tail = r.t

\* C17: two writers that take a writer-side lock for each circ_buf_write and
\* two readers that take a reader-side lock for each peek, read or skip, the
\* two sides not locked against each other: occupancy stays within capacity, no
\* writer stores over an unconsumed byte, every read starts where the read
\* before it stopped and gets the accepted bytes in the order of the calls, so
\* that no byte is delivered twice and none is left out.
C17_LockPerSide ==
  inited =>
    /\ head >= tail /\ head - tail <= size
    /\ ~(wpc # "idle" /\ other.w.pc # "idle")
    /\ ~(rpc # "idle" /\ other.r.pc # "idle")
    /\ WriterSafe(wpc, wr) /\ WriterSafe(other.w.pc, other.w.wr)
    /\ ReaderSafe(rpc, rd) /\ ReaderSafe(other.r.pc, other.r.rd)
    /\ (wpc = "idle" /\ other.w.pc = "idle") =>
         NowResident = Tags(tail, circ_buf_used(head, tail))

\* one writer and one reader were set aside in the middle of their copies, each
\* holding the lock of its side, after bytes of earlier calls went through; the
\* writer and the reader that run meanwhile are kept out
C17_Witness ==
  /\ inited /\ size > 0
  /\ wpc = "idle" /\ other.w.pc = "copy" /\ other.w.wr.i < other.w.wr.bytes
  /\ rpc = "idle" /\ other.r.pc = "copy" /\ other.r.rd.i < other.r.rd.bytes
  /\ tail > 0

\* several writers, one reader: the reader ends a read that started where an
\* earlier read stopped, while a writer set aside is in its copy
C17_OneReaderReached ==
  /\ inited /\ other.r = OIdle.r /\ rpc = "idle" /\ rd.kind = "read" /\ rd.bytes > 0
  /\ rd.t > 0 /\ other.w.pc = "copy" /\ other.w.wr.i < other.w.wr.bytes

\* one writer, several readers: the writer is about to publish while the reader
\* set aside is in its copy, with a head that is stale by now
C17_OneWriterReached ==
  /\ inited /\ other.w = OIdle.w /\ wpc = "store" /\ wr.bytes > 0
  /\ other.r.pc = "copy" /\ other.r.rd.h # head

\* the positions of circ_buf_overwrite after the truncation, and those among
\* them where head is already advanced and tail not yet
AfterTruncation ==
  {"o_load_head", "o_load_tail", "o_off", "o_copy", "o_store_head", "o_load_tail2",
   "o_store_tail"}
BeforeHeadStore == {"o_off", "o_copy", "o_store_head"}
BetweenTheStores == {"o_load_tail2", "o_store_tail"}

Movers == {"write", "overwrite", "peek", "read", "skip"} \cup QueryNames
HeadStep ==
  CASE op.name = "write" -> op.ret
    [] op.name = "overwrite" /\ op.buf -> Min(op.n, op.pre.size)
    [] OTHER -> 0
TailStep ==
  CASE op.name \in {"read", "skip"} -> op.ret
    [] op.name = "overwrite" -> op.ret
    [] OTHER -> 0
OnInitialized == pc = "returned" /\ op.handle /\ op.pre.inited

\* C19 as amended: as long as the counters do not overflow, write, overwrite,
\* peek, read, skip and the queries never make a cursor smaller: each adds the
\* whole byte count to the cursor it moves and the sum is stored as it is, not
\* reduced modulo size. circ_buf_reset and a successful circ_buf_init put both
\* cursors back to 0, a successful circ_buf_resize puts tail back to 0 and head
\* to the number of bytes kept; a failed call and circ_buf_uninit leave them.
C19_MonotoneUntilRestart ==
  OnInitialized =>
    /\ op.name \in Movers =>
         /\ head = op.pre.head + HeadStep /\ tail = op.pre.tail + TailStep
         /\ head >= op.pre.head /\ tail >= op.pre.tail
    /\ op.name = "reset" => head = 0 /\ tail = 0
    /\ (op.name = "init" /\ op.err = "OK") => head = 0 /\ tail = 0
    /\ (op.name = "resize" /\ op.err = "OK") =>
         /\ tail = 0
         /\ head = Min(circ_buf_used(op.pre.head, op.pre.tail), op.n)
    /\ (op.name \in {"init", "resize"} /\ op.err # "OK") =>
         head = op.pre.head /\ tail = op.pre.tail
    /\ op.name = "uninit" => head = op.pre.head /\ tail = op.pre.tail

\* a read left tail above the capacity: the cursor is stored whole
C19_Witness ==
  /\ Done("read") /\ op.pre.inited /\ op.ret > 0 /\ size > 0 /\ tail > size
  /\ tail % size # tail

\* a reset took both cursors back to 0
C19_ResetReached == Done("reset") /\ op.pre.inited /\ op.pre.tail > 0 /\ head = 0 /\ tail = 0

\* a resize took tail back to 0 and head to the count of bytes kept
C19_ResizeReached ==
  /\ Done("resize") /\ op.pre.tail > 0 /\ tail = 0 /\ head > 0 /\ head < op.pre.head

\* C19: across any sequence of calls on an initialized buffer, neither head nor
\* tail is smaller after a call than it was before it.
C19_CursorsNeverDecrease ==
  OnInitialized => head >= op.pre.head /\ tail >= op.pre.tail

DataMovers == {"peek", "read", "write", "overwrite"}
\* a data movement call with a buffer and a source or destination was made on a
\* buffer whose last circ_buf_init or circ_buf_resize returned 0
MoverCalled ==
  /\ pc \in {"returned", "trap"} /\ op.name \in DataMovers
  /\ op.handle /\ op.buf /\ op.pre.inited

\* C20: on every buffer for which circ_buf_init or circ_buf_resize returned 0,
\* size 0 included, peek, read, write and overwrite return a byte count and
\* take no offset modulo a size of 0; circ_buf_peek fails only for a NULL circ.
C20_ZeroCapacityReturns ==
  /\ MoverCalled => pc = "returned" /\ op.err = "OK" /\ op.pre.size > 0
  /\ (pc = "returned" /\ op.name = "peek" /\ op.err # "OK") => ~op.handle

\* with a size above 0 every such call returns its count
C20_PositiveCapacityReturns ==
  /\ (MoverCalled /\ op.pre.size > 0) => pc = "returned" /\ op.err = "OK"
  /\ (pc = "returned" /\ op.name = "peek" /\ op.err # "OK") => ~op.handle /\ op.err = "EINVAL"

\* the division by zero faulted in a call on a buffer resized to 0 bytes
C20_TrapAfterResize ==
  /\ MoverCalled /\ pc = "trap" /\ op.pre.size = 0 /\ op.pre.base \in Heap

\* the division by zero faulted in a peek on a buffer initialized without storage
C20_TrapAfterInit ==
  /\ MoverCalled /\ pc = "trap" /\ op.name = "peek" /\ op.pre.size = 0
  /\ op.pre.base = "null"

\* the division by zero did not fault, and the call went on with any offset
C20_AnyOffsetReached ==
  /\ MoverCalled /\ pc = "returned" /\ op.pre.size = 0

CarryCalls == {"write", "overwrite", "peek", "read", "skip"}
CarryCalled == pc = "returned" /\ op.name \in CarryCalls /\ op.handle /\ op.buf
\* what the same call returns and leaves with unbounded cursors
RefNow == RefStep(ref, op)

\* C21: with head and tail modulo 2^CursorBits, for every size from 1 to
\* SIZE_MAX and every sequence of write, overwrite, peek, read and skip in which
\* head passes 2^CursorBits, the occupancy (head - tail) mod 2^CursorBits is
\* within 0..size, and every call returns the count and the bytes that the same
\* sequence returns with unbounded cursors.
C21_OverflowIsInvisible ==
  CarryCalled =>
    /\ circ_buf_used(head, tail) >= 0 /\ circ_buf_used(head, tail) <= size
    /\ op.ret = RefNow.ret
    /\ op.dst = RefNow.dst

\* for every size, the cursors are those of the reference modulo 2^CursorBits,
\* the occupancy is the same and within 0..size, and the counts are the same
C21_CountsAgree ==
  /\ (pc = "idle" /\ inited) =>
       /\ head = ref.head % SizeT /\ tail = ref.tail % SizeT
       /\ circ_buf_used(head, tail) = ref.head - ref.tail
  /\ CarryCalled =>
       /\ head = RefNow.head % SizeT /\ tail = RefNow.tail % SizeT
       /\ circ_buf_used(head, tail) = RefNow.head - RefNow.tail
       /\ circ_buf_used(head, tail) >= 0 /\ circ_buf_used(head, tail) <= size
       /\ op.ret = RefNow.ret

\* when size divides 2^CursorBits, the bytes returned and the storage are the same too
C21_DividingSizeAgrees ==
  (size > 0 /\ SizeT % size = 0) =>
    /\ (pc = "idle" /\ inited) => mem = ref.mem
    /\ CarryCalled => op.dst = RefNow.dst /\ mem = RefNow.mem

\* a read whose bytes lie on both sides of the carry, size dividing 2^CursorBits
C21_DividingCarryReached ==
  /\ CarryCalled /\ op.name = "read" /\ size > 1 /\ SizeT % size = 0
  /\ ref.tail < SizeT /\ RefNow.tail > SizeT /\ op.dst = Stream(ref.tail, op.ret)

\* after the carry a read returned the right count and the wrong bytes
C21_WrongBytesReached ==
  /\ CarryCalled /\ op.name = "read" /\ ref.head >= SizeT
  /\ op.ret = RefNow.ret /\ op.ret > 0 /\ op.dst # RefNow.dst
  /\ RefNow.dst = Stream(ref.tail, op.ret)
====
